---- MODULE Spec2Model ----
(***************************************************************************)
(* Indicator library and signal detector of the candlestick strategy       *)
(* examples: calculateSma, calculateEma, calculateRsi and detectCrossover.  *)
(*                                                                         *)
(* A JavaScript number is modelled as a pair <<n, d>>: the exact rational   *)
(* n/d in lowest terms with d > 0, or <<1,0>> = Infinity, <<-1,0>> =        *)
(* -Infinity, <<0,0>> = NaN.  <<0,-1>> is the value `undefined`.  Rounding  *)
(* of IEEE doubles is not modelled, and -0 is identified with 0 (no code    *)
(* path modelled here divides by a zero that could be negative).            *)
(***************************************************************************)
EXTENDS Integers, Sequences, FiniteSets, TLC

\* ---- bounds of the model -------------------------------------------------
MaxLen == 4
MaxVal == 2
MaxPeriod == 3
MaxLineLen == 3
MaxLineNum == 3
MaxFrameLen == 3
MaxGrowLen == 4

\* ---- JavaScript numbers --------------------------------------------------
NaN == <<0, 0>>
Undefined == <<0, -1>>

AbsInt(x) == IF x < 0 THEN -x ELSE x

SignInt(x) == IF x < 0 THEN -1 ELSE IF x > 0 THEN 1 ELSE 0

RECURSIVE GCD(_, _)
GCD(a, b) == IF b = 0 THEN a ELSE GCD(b, a % b)

\* the number n/d (d may be negative or zero), in canonical form
Norm(n, d) ==
  IF d = 0 THEN <<SignInt(n), 0>>
  ELSE LET s == IF d < 0 THEN -1 ELSE 1
           g == GCD(AbsInt(n), AbsInt(d))
       IN  <<(s * n) \div g, (s * d) \div g>>

Int2Num(v) == <<v, 1>>

\* ToNumber: undefined converts to NaN
ToNumber(a) == IF a = Undefined THEN NaN ELSE a

Neg(a) == LET x == ToNumber(a) IN <<-x[1], x[2]>>

Add(a, b) ==
  LET x == ToNumber(a)
      y == ToNumber(b)
  IN  IF x = NaN \/ y = NaN THEN NaN
      ELSE IF x[2] = 0 /\ y[2] = 0 THEN (IF x = y THEN x ELSE NaN)
      ELSE IF x[2] = 0 THEN x
      ELSE IF y[2] = 0 THEN y
      ELSE Norm(x[1] * y[2] + y[1] * x[2], x[2] * y[2])

Sub(a, b) == Add(a, Neg(b))

Mul(a, b) ==
  LET x == ToNumber(a)
      y == ToNumber(b)
  IN  Norm(x[1] * y[1], x[2] * y[2])

Div(a, b) ==
  LET x == ToNumber(a)
      y == ToNumber(b)
      s == IF y[1] < 0 THEN -1 ELSE 1
  IN  Norm(s * x[1] * y[2], s * x[2] * y[1])

MathAbs(a) == LET x == ToNumber(a) IN <<AbsInt(x[1]), x[2]>>

\* a < b, a <= b, a > b, a >= b as JavaScript evaluates them
Lt(a, b) ==
  LET x == ToNumber(a)
      y == ToNumber(b)
  IN  IF x = NaN \/ y = NaN THEN FALSE
      ELSE IF x[2] = 0 /\ y[2] = 0 THEN x[1] < y[1]
      ELSE x[1] * y[2] < y[1] * x[2]

Le(a, b) ==
  LET x == ToNumber(a)
      y == ToNumber(b)
  IN  IF x = NaN \/ y = NaN THEN FALSE ELSE (x = y \/ Lt(x, y))

Gt(a, b) == Lt(b, a)

Ge(a, b) == Le(b, a)

\* truthiness of a number, as used by `x || fallback`
Truthy(a) == a # Undefined /\ a # NaN /\ a[1] # 0

OrElse_Nullish(a, fallback) == IF a = Undefined THEN fallback ELSE a

\* a || fallback
OrElse(a, fallback) == IF Truthy(a) THEN a ELSE fallback

\* ---- JavaScript arrays (0-based indices over 1-based sequences) ----------
\* arr[j]: a read outside the array yields undefined
At(arr, j) == IF j >= 0 /\ j < Len(arr) THEN arr[j + 1] ELSE Undefined

\* arr[j] = v for j >= 0; writing past the end leaves holes that read undefined
ArraySet(arr, j, v) ==
  [k \in 1..(IF j + 1 > Len(arr) THEN j + 1 ELSE Len(arr)) |->
     IF k = j + 1 THEN v ELSE IF k <= Len(arr) THEN arr[k] ELSE Undefined]

\* Array.prototype.slice(start, end): negative indices count from the end
SliceIndex(len, k) ==
  IF k < 0 THEN (IF len + k > 0 THEN len + k ELSE 0)
  ELSE (IF k < len THEN k ELSE len)

Slice(arr, start, end) ==
  LET from == SliceIndex(Len(arr), start)
      to == SliceIndex(Len(arr), end)
  IN  IF from >= to THEN <<>> ELSE SubSeq(arr, from + 1, to)

\* arr.reduce((a, b) => a + b, 0)
RECURSIVE ReduceSum(_)
ReduceSum(arr) ==
  IF arr = <<>> THEN Int2Num(0)
  ELSE Add(ReduceSum(SubSeq(arr, 1, Len(arr) - 1)), arr[Len(arr)])

\* arr.filter(c => c > 0) and arr.filter(c => c < 0)
FilterPositive(arr) == SelectSeq(arr, LAMBDA c : Gt(c, Int2Num(0)))

FilterNegative(arr) == SelectSeq(arr, LAMBDA c : Lt(c, Int2Num(0)))

\* ---- inputs --------------------------------------------------------------
Prices == {Int2Num(v) : v \in 0..MaxVal}

PriceSeries == UNION {[1..n -> Prices] : n \in 0..MaxLen}

Periods == (-1)..MaxPeriod

\* values of an indicator line: averages of prices, here in steps of 1/2
LineValues == {Norm(v, 2) : v \in 0..MaxLineNum}

LineSeries == UNION {[1..n -> LineValues] : n \in 0..MaxLineLen}

VARIABLES fn, pc, data, period, i, changes, out, line1, line2, signal,
          args, loc, emails, output, past

\* state of a strategy invocation: call arguments, locals of run, the emails
\* scheduled and the records output by it, and the records output by the
\* earlier invocations on the same, shorter, series
runVars == <<args, loc, emails, output, past>>

\* state of a library call
libVars == <<fn, pc, data, period, i, changes, out, line1, line2, signal>>

vars == <<fn, pc, data, period, i, changes, out, line1, line2, signal,
          args, loc, emails, output, past>>

\* no strategy is running
NoRun ==
  /\ args = <<>>
  /\ loc = <<>>
  /\ emails = <<>>
  /\ output = <<>>
  /\ past = <<>>

\* ---- calculateSma --------------------------------------------------------
SmaLoopCond_Strict(d, j, p) == j < Len(d) - p

\* loop condition  i <= data.length - period
SmaLoopCond(d, j, p) == j <= Len(d) - p

SmaValue_ShortWindow(d, j, p) ==
  Div(ReduceSum(Slice(d, j, j + p - 1)), Int2Num(p))

\* data.slice(i, i + period).reduce(...) / period
SmaValue(d, j, p) == Div(ReduceSum(Slice(d, j, j + p)), Int2Num(p))

SmaIter ==
  /\ fn = "calculateSma" /\ pc = "loop"
  /\ SmaLoopCond(data, i, period)
  /\ out' = Append(out, SmaValue(data, i, period))
  /\ i' = i + 1
  /\ UNCHANGED <<fn, pc, data, period, changes, line1, line2, signal>>
  /\ UNCHANGED runVars

SmaReturn ==
  /\ fn = "calculateSma" /\ pc = "loop"
  /\ ~SmaLoopCond(data, i, period)
  /\ pc' = "done"
  /\ UNCHANGED <<fn, data, period, i, changes, out, line1, line2, signal>>
  /\ UNCHANGED runVars

\* ---- calculateEma --------------------------------------------------------
EmaK_NoPlusOne(p) == Div(Int2Num(2), Int2Num(p))

\* k = 2 / (period + 1)
EmaK(p) == Div(Int2Num(2), Int2Num(p + 1))

\* data[i] * k + ema[i - 1] * (1 - k)
EmaNext(x, prev, k) == Add(Mul(x, k), Mul(prev, Sub(Int2Num(1), k)))

\* ema[0] = data[0]
EmaSeed ==
  /\ fn = "calculateEma" /\ pc = "seed"
  /\ out' = ArraySet(out, 0, At(data, 0))
  /\ i' = 1
  /\ pc' = "loop"
  /\ UNCHANGED <<fn, data, period, changes, line1, line2, signal>>
  /\ UNCHANGED runVars

EmaIter ==
  /\ fn = "calculateEma" /\ pc = "loop"
  /\ i < Len(data)
  /\ out' = ArraySet(out, i, EmaNext(At(data, i), At(out, i - 1), EmaK(period)))
  /\ i' = i + 1
  /\ UNCHANGED <<fn, pc, data, period, changes, line1, line2, signal>>
  /\ UNCHANGED runVars

EmaReturn ==
  /\ fn = "calculateEma" /\ pc = "loop"
  /\ ~(i < Len(data))
  /\ pc' = "done"
  /\ UNCHANGED <<fn, data, period, i, changes, out, line1, line2, signal>>
  /\ UNCHANGED runVars

\* ---- calculateRsi --------------------------------------------------------
\* recentChanges.filter(c => c > 0).reduce(...) / period
RsiGains(recent, p) == Div(ReduceSum(FilterPositive(recent)), Int2Num(p))

RsiLosses_NoAbs(recent, p) == Div(ReduceSum(FilterNegative(recent)), Int2Num(p))

\* Math.abs(recentChanges.filter(c => c < 0).reduce(...)) / period
RsiLosses(recent, p) ==
  Div(MathAbs(ReduceSum(FilterNegative(recent))), Int2Num(p))

\* rs = gains / (losses || 1);  100 - (100 / (1 + rs))
RsiValue(ch, j, p) ==
  LET recentChanges == Slice(ch, j - p, j)
      gains == RsiGains(recentChanges, p)
      losses == RsiLosses(recentChanges, p)
      rs == Div(gains, OrElse(losses, Int2Num(1)))
  IN  Sub(Int2Num(100), Div(Int2Num(100), Add(Int2Num(1), rs)))

\* first loop: changes.push(prices[i] - prices[i - 1])
RsiChange ==
  /\ fn = "calculateRsi" /\ pc = "changes"
  /\ i < Len(data)
  /\ changes' = Append(changes, Sub(At(data, i), At(data, i - 1)))
  /\ i' = i + 1
  /\ UNCHANGED <<fn, pc, data, period, out, line1, line2, signal>>
  /\ UNCHANGED runVars

\* first loop exits, second loop starts at i = period
RsiChangesDone ==
  /\ fn = "calculateRsi" /\ pc = "changes"
  /\ ~(i < Len(data))
  /\ i' = period
  /\ pc' = "loop"
  /\ UNCHANGED <<fn, data, period, changes, out, line1, line2, signal>>
  /\ UNCHANGED runVars

RsiIter ==
  /\ fn = "calculateRsi" /\ pc = "loop"
  /\ i <= Len(changes)
  /\ out' = Append(out, RsiValue(changes, i, period))
  /\ i' = i + 1
  /\ UNCHANGED <<fn, pc, data, period, changes, line1, line2, signal>>
  /\ UNCHANGED runVars

RsiReturn ==
  /\ fn = "calculateRsi" /\ pc = "loop"
  /\ ~(i <= Len(changes))
  /\ pc' = "done"
  /\ UNCHANGED <<fn, data, period, i, changes, out, line1, line2, signal>>
  /\ UNCHANGED runVars

\* ---- the indicator library: one call of one function ---------------------
Init ==
  /\ fn \in {"calculateSma", "calculateEma", "calculateRsi"}
  /\ pc = (IF fn = "calculateSma" THEN "loop"
           ELSE IF fn = "calculateEma" THEN "seed" ELSE "changes")
  /\ data \in PriceSeries
  /\ period \in Periods
  /\ i = (IF fn = "calculateRsi" THEN 1 ELSE 0)
  /\ changes = <<>>
  /\ out = <<>>
  /\ line1 = <<>>
  /\ line2 = <<>>
  /\ signal = "pending"
  /\ NoRun

Next ==
  \/ SmaIter
  \/ SmaReturn
  \/ EmaSeed
  \/ EmaIter
  \/ EmaReturn
  \/ RsiChange
  \/ RsiChangesDone
  \/ RsiIter
  \/ RsiReturn

Spec == Init /\ [][Next]_vars

\* ---- detectCrossover -----------------------------------------------------
\* if (line1.length < 2 || line2.length < 2) return null
LengthGuard(l1, l2) == Len(l1) < 2 \/ Len(l2) < 2

BullishCond_LevelOnly(l1, l2) ==
  Gt(At(l1, Len(l1) - 1), At(l2, Len(l2) - 1))

BullishCond_Strict(l1, l2) ==
  /\ Lt(At(l1, Len(l1) - 2), At(l2, Len(l2) - 2))
  /\ Gt(At(l1, Len(l1) - 1), At(l2, Len(l2) - 1))

\* previous1 <= previous2 && current1 > current2
BullishCond(l1, l2) ==
  /\ Le(At(l1, Len(l1) - 2), At(l2, Len(l2) - 2))
  /\ Gt(At(l1, Len(l1) - 1), At(l2, Len(l2) - 1))

BearishCond_CopiedComparison(l1, l2) ==
  /\ Ge(At(l1, Len(l1) - 2), At(l2, Len(l2) - 2))
  /\ Gt(At(l1, Len(l1) - 1), At(l2, Len(l2) - 1))

\* previous1 >= previous2 && current1 < current2
BearishCond(l1, l2) ==
  /\ Ge(At(l1, Len(l1) - 2), At(l2, Len(l2) - 2))
  /\ Lt(At(l1, Len(l1) - 1), At(l2, Len(l2) - 1))

detectCrossover(l1, l2) ==
  IF LengthGuard(l1, l2) THEN "null"
  ELSE IF BullishCond(l1, l2) THEN "bullish"
  ELSE IF BearishCond(l1, l2) THEN "bearish"
  ELSE "null"

DetectCall ==
  /\ fn = "detectCrossover" /\ pc = "call"
  /\ signal' = detectCrossover(line1, line2)
  /\ pc' = "done"
  /\ UNCHANGED <<fn, data, period, i, changes, out, line1, line2>>
  /\ UNCHANGED runVars

\* one call of detectCrossover on two arbitrary series
InitCross ==
  /\ fn = "detectCrossover"
  /\ pc = "call"
  /\ data = <<>>
  /\ period = 1
  /\ i = 0
  /\ changes = <<>>
  /\ out = <<>>
  /\ line1 \in LineSeries
  /\ line2 \in LineSeries
  /\ signal = "pending"
  /\ NoRun

NextCross == DetectCall

SpecCross == InitCross /\ [][NextCross]_vars

\* ---- call arguments ------------------------------------------------------
\* a call argument the host did not supply
Absent == "<absent>"

\* parseInt(text) for the argument texts used here
ParseInt(text) ==
  CASE text = "-1" -> Int2Num(-1)
    [] text = "0" -> Int2Num(0)
    [] text = "1" -> Int2Num(1)
    [] text = "2" -> Int2Num(2)
    [] text = "2.0" -> Int2Num(2)
    [] text = "2.5" -> Int2Num(2)
    [] text = "3" -> Int2Num(3)
    [] text = "5" -> Int2Num(5)
    [] text = "10" -> Int2Num(10)
    [] OTHER -> NaN

\* parseFloat(text) for the argument texts used here
ParseFloat(text) ==
  CASE text = "-1" -> Int2Num(-1)
    [] text = "0" -> Int2Num(0)
    [] text = "0.5" -> <<1, 2>>
    [] text = "1" -> Int2Num(1)
    [] text = "1.5" -> <<3, 2>>
    [] text = "2" -> Int2Num(2)
    [] text = "2.0" -> Int2Num(2)
    [] text = "2.5" -> <<5, 2>>
    [] text = "3" -> Int2Num(3)
    [] text = "5" -> Int2Num(5)
    [] text = "10" -> Int2Num(10)
    [] text = "50" -> Int2Num(50)
    [] OTHER -> NaN

\* args.getCallArgument(name, parser): the parsed value, undefined when the
\* argument was not supplied (the `|| default` idiom of every caller relies on it)
getCallArgument(a, name, parser) ==
  IF a[name] = Absent THEN Undefined
  ELSE IF parser = "parseInt" THEN ParseInt(a[name]) ELSE ParseFloat(a[name])

\* args.getCallArgument(name, (v: string) => v): the text itself; Absent
\* stands for the undefined returned when the argument was not supplied
getCallArgumentText(a, name) == a[name]

\* integer value of a number that holds an integer
IntOf(x) == x[1]

\* the library state is not used by a strategy
libRest == <<period, i, changes, out, line1, line2, signal>>

LibIdle ==
  /\ period = 1
  /\ i = 0
  /\ changes = <<>>
  /\ out = <<>>
  /\ line1 = <<>>
  /\ line2 = <<>>
  /\ signal = "pending"

IsPrefix(a, b) == Len(a) <= Len(b) /\ a = SubSeq(b, 1, Len(a))

\* ---- SMA alert strategy --------------------------------------------------
\* calculateSma as a whole: the values pushed for i = j, j + 1, ...
RECURSIVE SmaFrom(_, _, _)
SmaFrom(d, j, p) ==
  IF SmaLoopCond(d, j, p) THEN <<SmaValue(d, j, p)>> \o SmaFrom(d, j + 1, p)
  ELSE <<>>

calculateSma(d, p) == SmaFrom(d, 0, p)

\* closes of Scenario A
ScenarioACloses == [k \in 1..10 |-> Int2Num(k)]

SmaAlertPeriodTexts == {Absent, "abc", "-1", "0", "1", "2", "3", "5"}

\* fastPeriod = ... || 10, slowPeriod = ... || 20
SmaAlertReadArgs ==
  /\ fn = "smaAlert" /\ pc = "start"
  /\ loc' = [fastPeriod |-> OrElse(getCallArgument(args, "fastPeriod", "parseInt"), Int2Num(10)),
             slowPeriod |-> OrElse(getCallArgument(args, "slowPeriod", "parseInt"), Int2Num(20)),
             fastSma |-> <<>>, slowSma |-> <<>>,
             crossover |-> "null", emailSent |-> FALSE]
  /\ pc' = "compute"
  /\ UNCHANGED <<fn, data, args, emails, output, past>>
  /\ UNCHANGED libRest

\* fastSma, slowSma, crossover
SmaAlertCompute ==
  /\ fn = "smaAlert" /\ pc = "compute"
  /\ LET fastSma == calculateSma(data, IntOf(loc.fastPeriod))
         slowSma == calculateSma(data, IntOf(loc.slowPeriod))
     IN  loc' = [loc EXCEPT !.fastSma = fastSma, !.slowSma = slowSma,
                            !.crossover = detectCrossover(fastSma, slowSma)]
  /\ pc' = "notify"
  /\ UNCHANGED <<fn, data, args, emails, output, past>>
  /\ UNCHANGED libRest

\* if (crossover === 'bullish') ... else if (crossover === 'bearish') ...
SmaAlertNotify ==
  /\ fn = "smaAlert" /\ pc = "notify"
  /\ loc.crossover \in {"bullish", "bearish"}
  /\ emails' = Append(emails, [message |-> loc.crossover,
                               fastPeriod |-> loc.fastPeriod,
                               slowPeriod |-> loc.slowPeriod])
  /\ loc' = [loc EXCEPT !.emailSent = TRUE]
  /\ pc' = "output"
  /\ UNCHANGED <<fn, data, args, output, past>>
  /\ UNCHANGED libRest

SmaAlertNoSignal ==
  /\ fn = "smaAlert" /\ pc = "notify"
  /\ loc.crossover \notin {"bullish", "bearish"}
  /\ pc' = "output"
  /\ UNCHANGED <<fn, data, args, loc, emails, output, past>>
  /\ UNCHANGED libRest

\* output({ status: 'ok', crossover: crossover || 'none', emailSent, ... })
SmaAlertOutput ==
  /\ fn = "smaAlert" /\ pc = "output"
  /\ output' = Append(output,
        [status |-> "ok",
         crossover |-> IF loc.crossover = "null" THEN "none" ELSE loc.crossover,
         emailSent |-> loc.emailSent,
         currentFastSma |-> At(loc.fastSma, Len(loc.fastSma) - 1),
         currentSlowSma |-> At(loc.slowSma, Len(loc.slowSma) - 1)])
  /\ pc' = "done"
  /\ UNCHANGED <<fn, data, args, loc, emails, past>>
  /\ UNCHANGED libRest

\* the closes the next candle may carry: any price while the series is short,
\* and, for the SMA alert, the next close of Scenario A while the series is a
\* prefix of it; the multiple timeframe strategy is invoked once on its three
\* series
NextCloses(f, d) ==
  (IF f # "multi" /\ Len(d) < MaxLen THEN Prices ELSE {})
    \cup (IF f = "smaAlert" /\ Len(d) < Len(ScenarioACloses)
             /\ IsPrefix(d, ScenarioACloses)
          THEN {ScenarioACloses[Len(d) + 1]} ELSE {})

\* the host invokes the strategy again on the series grown by one candle
NextCandle ==
  /\ pc = "done"
  /\ \E c \in NextCloses(fn, data) : data' = Append(data, c)
  /\ past' = past \o output
  /\ loc' = <<>>
  /\ emails' = <<>>
  /\ output' = <<>>
  /\ pc' = "start"
  /\ UNCHANGED <<fn, args>>
  /\ UNCHANGED libRest

InitSmaAlert ==
  /\ fn = "smaAlert"
  /\ pc = "start"
  /\ data = <<>>
  /\ args \in [{"fastPeriod", "slowPeriod"} -> SmaAlertPeriodTexts]
  /\ loc = <<>>
  /\ emails = <<>>
  /\ output = <<>>
  /\ past = <<>>
  /\ LibIdle

NextSmaAlert ==
  \/ SmaAlertReadArgs
  \/ SmaAlertCompute
  \/ SmaAlertNotify
  \/ SmaAlertNoSignal
  \/ SmaAlertOutput
  \/ NextCandle

SpecSmaAlert == InitSmaAlert /\ [][NextSmaAlert]_vars

\* ---- price threshold strategy --------------------------------------------
ThresholdTexts == {Absent, "abc", "0", "0.5", "1", "1.5"}

DirectionTexts == {Absent, "above", "below", "sideways"}

\* direction = ... || 'above'
DirectionOrDefault(v) == IF v = Absent \/ v = "" THEN "above" ELSE v

AboveCond_LevelOnly(prev, cur, t) == Gt(cur, t)

\* previousPrice <= threshold && currentPrice > threshold
AboveCond(prev, cur, t) == Le(prev, t) /\ Gt(cur, t)

\* previousPrice >= threshold && currentPrice < threshold
BelowCond(prev, cur, t) == Ge(prev, t) /\ Lt(cur, t)

\* if (candles.length < 2) { output({ status: 'error', ... }); return; }
ThresholdTooFew ==
  /\ fn = "threshold" /\ pc = "start"
  /\ Len(data) < 2
  /\ output' = Append(output,
        [status |-> "error", message |-> "Not enough candles for analysis"])
  /\ pc' = "done"
  /\ UNCHANGED <<fn, data, args, loc, emails, past>>
  /\ UNCHANGED libRest

\* threshold, direction, currentPrice, previousPrice
ThresholdReadArgs ==
  /\ fn = "threshold" /\ pc = "start"
  /\ ~(Len(data) < 2)
  /\ loc' = [threshold |-> getCallArgument(args, "threshold", "parseFloat"),
             direction |-> DirectionOrDefault(getCallArgumentText(args, "direction")),
             currentPrice |-> At(data, Len(data) - 1),
             previousPrice |-> At(data, Len(data) - 2),
             triggered |-> FALSE, emailSent |-> FALSE]
  /\ pc' = "decide"
  /\ UNCHANGED <<fn, data, args, emails, output, past>>
  /\ UNCHANGED libRest

ThresholdAbove ==
  /\ fn = "threshold" /\ pc = "decide"
  /\ loc.direction = "above"
  /\ AboveCond(loc.previousPrice, loc.currentPrice, loc.threshold)
  /\ emails' = Append(emails, [message |-> "crossed ABOVE",
                               threshold |-> loc.threshold,
                               currentPrice |-> loc.currentPrice])
  /\ loc' = [loc EXCEPT !.triggered = TRUE, !.emailSent = TRUE]
  /\ pc' = "output"
  /\ UNCHANGED <<fn, data, args, output, past>>
  /\ UNCHANGED libRest

ThresholdBelow ==
  /\ fn = "threshold" /\ pc = "decide"
  /\ ~(loc.direction = "above"
        /\ AboveCond(loc.previousPrice, loc.currentPrice, loc.threshold))
  /\ loc.direction = "below"
  /\ BelowCond(loc.previousPrice, loc.currentPrice, loc.threshold)
  /\ emails' = Append(emails, [message |-> "crossed BELOW",
                               threshold |-> loc.threshold,
                               currentPrice |-> loc.currentPrice])
  /\ loc' = [loc EXCEPT !.triggered = TRUE, !.emailSent = TRUE]
  /\ pc' = "output"
  /\ UNCHANGED <<fn, data, args, output, past>>
  /\ UNCHANGED libRest

ThresholdNoTrigger ==
  /\ fn = "threshold" /\ pc = "decide"
  /\ ~(loc.direction = "above"
        /\ AboveCond(loc.previousPrice, loc.currentPrice, loc.threshold))
  /\ ~(loc.direction = "below"
        /\ BelowCond(loc.previousPrice, loc.currentPrice, loc.threshold))
  /\ pc' = "output"
  /\ UNCHANGED <<fn, data, args, loc, emails, output, past>>
  /\ UNCHANGED libRest

\* output({ status: 'ok', currentPrice, threshold, direction, triggered, emailSent })
ThresholdOutput ==
  /\ fn = "threshold" /\ pc = "output"
  /\ output' = Append(output,
        [status |-> "ok", currentPrice |-> loc.currentPrice,
         threshold |-> loc.threshold, direction |-> loc.direction,
         triggered |-> loc.triggered, emailSent |-> loc.emailSent])
  /\ pc' = "done"
  /\ UNCHANGED <<fn, data, args, loc, emails, past>>
  /\ UNCHANGED libRest

InitThreshold ==
  /\ fn = "threshold"
  /\ pc = "start"
  /\ data = <<>>
  /\ args \in [threshold : ThresholdTexts, direction : DirectionTexts]
  /\ loc = <<>>
  /\ emails = <<>>
  /\ output = <<>>
  /\ past = <<>>
  /\ LibIdle

NextThreshold ==
  \/ ThresholdTooFew
  \/ ThresholdReadArgs
  \/ ThresholdAbove
  \/ ThresholdBelow
  \/ ThresholdNoTrigger
  \/ ThresholdOutput
  \/ NextCandle

SpecThreshold == InitThreshold /\ [][NextThreshold]_vars

\* ---- volume spike strategy -----------------------------------------------
\* data.reduce((a, b) => a + b, 0) / data.length
calculateAverage(d) == Div(ReduceSum(d), Int2Num(Len(d)))

HistoricalVolumes_WithCurrent(v, p) == Slice(v, -p, Len(v))

\* volumes.slice(-volumePeriod - 1, -1)
HistoricalVolumes(v, p) == Slice(v, -p - 1, -1)

\* volumes of Scenario D: ten candles of volume 100, then one of volume 300
ScenarioDVolumes == [k \in 1..11 |-> IF k = 11 THEN Int2Num(300) ELSE Int2Num(100)]

VolumePeriodTexts == {Absent, "-1", "0", "1", "2", "3", "10"}

SpikeMultiplierTexts == {Absent, "abc", "0.5", "2.0", "3"}

\* volumePeriod = ... || 20, spikeMultiplier = ... || 2.0
VolumeReadArgs ==
  /\ fn = "volume" /\ pc = "start"
  /\ loc' = [volumePeriod |-> OrElse(getCallArgument(args, "volumePeriod", "parseInt"), Int2Num(20)),
             spikeMultiplier |-> OrElse(getCallArgument(args, "spikeMultiplier", "parseFloat"), Int2Num(2)),
             currentVolume |-> Undefined, avgVolume |-> Undefined,
             volumeRatio |-> Undefined,
             spikeDetected |-> FALSE, emailSent |-> FALSE]
  /\ pc' = "check"
  /\ UNCHANGED <<fn, data, args, emails, output, past>>
  /\ UNCHANGED libRest

\* if (candles.length < volumePeriod + 1) { output({ status: 'error', ... }); return; }
VolumeTooFew ==
  /\ fn = "volume" /\ pc = "check"
  /\ Len(data) < IntOf(loc.volumePeriod) + 1
  /\ output' = Append(output,
        [status |-> "error", message |-> "Not enough candles. Need at least",
         count |-> IntOf(loc.volumePeriod) + 1])
  /\ pc' = "done"
  /\ UNCHANGED <<fn, data, args, loc, emails, past>>
  /\ UNCHANGED libRest

\* currentVolume, historicalVolumes, avgVolume, volumeRatio
VolumeCompute ==
  /\ fn = "volume" /\ pc = "check"
  /\ ~(Len(data) < IntOf(loc.volumePeriod) + 1)
  /\ LET currentVolume == At(data, Len(data) - 1)
         avgVolume == calculateAverage(HistoricalVolumes(data, IntOf(loc.volumePeriod)))
     IN  loc' = [loc EXCEPT !.currentVolume = currentVolume,
                            !.avgVolume = avgVolume,
                            !.volumeRatio = Div(currentVolume, avgVolume)]
  /\ pc' = "decide"
  /\ UNCHANGED <<fn, data, args, emails, output, past>>
  /\ UNCHANGED libRest

\* if (volumeRatio >= spikeMultiplier) { ... scheduleEmail ... }
VolumeSpike ==
  /\ fn = "volume" /\ pc = "decide"
  /\ Ge(loc.volumeRatio, loc.spikeMultiplier)
  /\ emails' = Append(emails, [message |-> "Volume spike detected",
                               currentVolume |-> loc.currentVolume,
                               volumeRatio |-> loc.volumeRatio,
                               avgVolume |-> loc.avgVolume])
  /\ loc' = [loc EXCEPT !.spikeDetected = TRUE, !.emailSent = TRUE]
  /\ pc' = "output"
  /\ UNCHANGED <<fn, data, args, output, past>>
  /\ UNCHANGED libRest

VolumeNoSpike ==
  /\ fn = "volume" /\ pc = "decide"
  /\ ~Ge(loc.volumeRatio, loc.spikeMultiplier)
  /\ pc' = "output"
  /\ UNCHANGED <<fn, data, args, loc, emails, output, past>>
  /\ UNCHANGED libRest

\* output({ status: 'ok', currentVolume, avgVolume, volumeRatio, spikeDetected, emailSent })
VolumeOutput ==
  /\ fn = "volume" /\ pc = "output"
  /\ output' = Append(output,
        [status |-> "ok", currentVolume |-> loc.currentVolume,
         avgVolume |-> loc.avgVolume, volumeRatio |-> loc.volumeRatio,
         spikeDetected |-> loc.spikeDetected, emailSent |-> loc.emailSent])
  /\ pc' = "done"
  /\ UNCHANGED <<fn, data, args, loc, emails, past>>
  /\ UNCHANGED libRest

\* the series starts empty and grows, or is the series of Scenario D
InitVolume ==
  /\ fn = "volume"
  /\ pc = "start"
  /\ data \in {<<>>, ScenarioDVolumes}
  /\ args \in [volumePeriod : VolumePeriodTexts, spikeMultiplier : SpikeMultiplierTexts]
  /\ loc = <<>>
  /\ emails = <<>>
  /\ output = <<>>
  /\ past = <<>>
  /\ LibIdle

NextVolume ==
  \/ VolumeReadArgs
  \/ VolumeTooFew
  \/ VolumeCompute
  \/ VolumeSpike
  \/ VolumeNoSpike
  \/ VolumeOutput
  \/ NextCandle

SpecVolume == InitVolume /\ [][NextVolume]_vars

\* ---- Bollinger bands strategy --------------------------------------------
\* A value a + b * sqrt(v) is the triple <<a, b, v>> of numbers (v >= 0): the
\* exact value of an expression built from one Math.sqrt.

\* Math.sqrt(v)
MathSqrt(v) == <<Int2Num(0), Int2Num(1), v>>

\* s * m
SurdTimes(s, m) == <<Mul(s[1], m), Mul(s[2], m), s[3]>>

\* x + s and x - s
NumPlusSurd(x, s) == <<Add(x, s[1]), s[2], s[3]>>

NumMinusSurd(x, s) == <<Sub(x, s[1]), Neg(s[2]), s[3]>>

SurdIsNaN(s) == ToNumber(s[1]) = NaN \/ ToNumber(s[2]) = NaN \/ ToNumber(s[3]) = NaN

\* sign of the term b * sqrt(v)
SurdTermSign(s) == IF s[3][1] = 0 THEN 0 ELSE SignInt(s[2][1])

\* x > a + b * sqrt(v)
GtNumSurd(x, s) ==
  IF ToNumber(x) = NaN \/ SurdIsNaN(s) THEN FALSE
  ELSE LET y == Sub(x, s[1])
           ySquared == Mul(y, y)
           termSquared == Mul(Mul(s[2], s[2]), s[3])
           t == SurdTermSign(s)
       IN  IF t = 0 THEN y[1] > 0
           ELSE IF t > 0 THEN y[1] > 0 /\ Gt(ySquared, termSquared)
           ELSE y[1] >= 0 \/ Lt(ySquared, termSquared)

GeNumSurd(x, s) ==
  IF ToNumber(x) = NaN \/ SurdIsNaN(s) THEN FALSE
  ELSE LET y == Sub(x, s[1])
           ySquared == Mul(y, y)
           termSquared == Mul(Mul(s[2], s[2]), s[3])
           t == SurdTermSign(s)
       IN  IF t = 0 THEN y[1] >= 0
           ELSE IF t > 0 THEN y[1] > 0 /\ Ge(ySquared, termSquared)
           ELSE y[1] >= 0 \/ Le(ySquared, termSquared)

\* x < a + b * sqrt(v)
LtNumSurd(x, s) ==
  IF ToNumber(x) = NaN \/ SurdIsNaN(s) THEN FALSE
  ELSE LET y == Sub(x, s[1])
           ySquared == Mul(y, y)
           termSquared == Mul(Mul(s[2], s[2]), s[3])
           t == SurdTermSign(s)
       IN  IF t = 0 THEN y[1] < 0
           ELSE IF t > 0 THEN y[1] <= 0 \/ Lt(ySquared, termSquared)
           ELSE y[1] < 0 /\ Gt(ySquared, termSquared)

\* calculateSma of the Bollinger example (a single number):
\* slice = data.slice(-period); slice.reduce(...) / slice.length
calculateSmaOfLast(d, p) ==
  LET slice == Slice(d, -p, Len(d))
  IN  Div(ReduceSum(slice), Int2Num(Len(slice)))

\* slice.map(value => Math.pow(value - mean, 2))
SquaredDiffs(slice, mean) ==
  [k \in 1..Len(slice) |-> Mul(Sub(slice[k], mean), Sub(slice[k], mean))]

Variance_Sample(slice, mean) ==
  Div(ReduceSum(SquaredDiffs(slice, mean)), Int2Num(Len(slice) - 1))

\* squaredDiffs.reduce(...) / slice.length
Variance(slice, mean) ==
  Div(ReduceSum(SquaredDiffs(slice, mean)), Int2Num(Len(slice)))

calculateStdDev(d, p) ==
  LET slice == Slice(d, -p, Len(d))
      mean == calculateSmaOfLast(d, p)
  IN  MathSqrt(Variance(slice, mean))

UpperCond_NotStrict(cur, upper) == GeNumSurd(cur, upper)

\* currentPrice > upperBand
UpperCond(cur, upper) == GtNumSurd(cur, upper)

\* currentPrice < lowerBand
LowerCond(cur, lower) == LtNumSurd(cur, lower)

NotEnoughData_OffByOne(n, p) == n < p - 1

\* closePrices.length < period
NotEnoughData(n, p) == n < p

\* closes of Scenario C: 5 candles
ScenarioCCloses == [k \in 1..5 |-> Int2Num(k)]

BollingerPeriodTexts == {Absent, "-1", "1", "2", "3", "5"}

StdDevMultiplierTexts == {Absent, "abc", "-1", "0.5", "1", "2.0"}

\* period = ... || 20, stdDevMultiplier = ... || 2.0
BollingerReadArgs ==
  /\ fn = "bollinger" /\ pc = "start"
  /\ loc' = [period |-> OrElse(getCallArgument(args, "period", "parseInt"), Int2Num(20)),
             stdDevMultiplier |-> OrElse(getCallArgument(args, "stdDevMultiplier", "parseFloat"), Int2Num(2)),
             sma |-> Undefined, stdDev |-> Undefined,
             upperBand |-> Undefined, lowerBand |-> Undefined,
             currentPrice |-> Undefined,
             breakout |-> "null", emailSent |-> FALSE]
  /\ pc' = "check"
  /\ UNCHANGED <<fn, data, args, emails, output, past>>
  /\ UNCHANGED libRest

BollingerTooFew_NoReturn ==
  /\ fn = "bollinger" /\ pc = "check"
  /\ NotEnoughData(Len(data), IntOf(loc.period))
  /\ output' = Append(output,
        [status |-> "error", message |-> "Not enough data. Need at least",
         count |-> IntOf(loc.period)])
  /\ pc' = "output"
  /\ UNCHANGED <<fn, data, args, loc, emails, past>>
  /\ UNCHANGED libRest

\* if (closePrices.length < period) { output({ status: 'error', ... }); return; }
BollingerTooFew ==
  /\ fn = "bollinger" /\ pc = "check"
  /\ NotEnoughData(Len(data), IntOf(loc.period))
  /\ output' = Append(output,
        [status |-> "error", message |-> "Not enough data. Need at least",
         count |-> IntOf(loc.period)])
  /\ pc' = "done"
  /\ UNCHANGED <<fn, data, args, loc, emails, past>>
  /\ UNCHANGED libRest

\* sma, stdDev, upperBand, lowerBand, currentPrice
BollingerCompute ==
  /\ fn = "bollinger" /\ pc = "check"
  /\ ~NotEnoughData(Len(data), IntOf(loc.period))
  /\ LET sma == calculateSmaOfLast(data, IntOf(loc.period))
         stdDev == calculateStdDev(data, IntOf(loc.period))
     IN  loc' = [loc EXCEPT
                   !.sma = sma,
                   !.stdDev = stdDev,
                   !.upperBand = NumPlusSurd(sma, SurdTimes(stdDev, loc.stdDevMultiplier)),
                   !.lowerBand = NumMinusSurd(sma, SurdTimes(stdDev, loc.stdDevMultiplier)),
                   !.currentPrice = At(data, Len(data) - 1)]
  /\ pc' = "decide"
  /\ UNCHANGED <<fn, data, args, emails, output, past>>
  /\ UNCHANGED libRest

BollingerUpper ==
  /\ fn = "bollinger" /\ pc = "decide"
  /\ UpperCond(loc.currentPrice, loc.upperBand)
  /\ emails' = Append(emails, [message |-> "broke above upper Bollinger Band",
                               currentPrice |-> loc.currentPrice,
                               band |-> loc.upperBand])
  /\ loc' = [loc EXCEPT !.breakout = "upper", !.emailSent = TRUE]
  /\ pc' = "output"
  /\ UNCHANGED <<fn, data, args, output, past>>
  /\ UNCHANGED libRest

BollingerLower ==
  /\ fn = "bollinger" /\ pc = "decide"
  /\ ~UpperCond(loc.currentPrice, loc.upperBand)
  /\ LowerCond(loc.currentPrice, loc.lowerBand)
  /\ emails' = Append(emails, [message |-> "broke below lower Bollinger Band",
                               currentPrice |-> loc.currentPrice,
                               band |-> loc.lowerBand])
  /\ loc' = [loc EXCEPT !.breakout = "lower", !.emailSent = TRUE]
  /\ pc' = "output"
  /\ UNCHANGED <<fn, data, args, output, past>>
  /\ UNCHANGED libRest

BollingerNone ==
  /\ fn = "bollinger" /\ pc = "decide"
  /\ ~UpperCond(loc.currentPrice, loc.upperBand)
  /\ ~LowerCond(loc.currentPrice, loc.lowerBand)
  /\ pc' = "output"
  /\ UNCHANGED <<fn, data, args, loc, emails, output, past>>
  /\ UNCHANGED libRest

\* output({ status: 'ok', currentPrice, sma, upperBand, lowerBand, breakout, emailSent })
BollingerOutput ==
  /\ fn = "bollinger" /\ pc = "output"
  /\ output' = Append(output,
        [status |-> "ok", currentPrice |-> loc.currentPrice, sma |-> loc.sma,
         upperBand |-> loc.upperBand, lowerBand |-> loc.lowerBand,
         breakout |-> loc.breakout, emailSent |-> loc.emailSent])
  /\ pc' = "done"
  /\ UNCHANGED <<fn, data, args, loc, emails, past>>
  /\ UNCHANGED libRest

\* the series starts empty and grows, or is the series of Scenario C
InitBollinger ==
  /\ fn = "bollinger"
  /\ pc = "start"
  /\ data \in {<<>>, ScenarioCCloses}
  /\ args \in [period : BollingerPeriodTexts, stdDevMultiplier : StdDevMultiplierTexts]
  /\ loc = <<>>
  /\ emails = <<>>
  /\ output = <<>>
  /\ past = <<>>
  /\ LibIdle

NextBollinger ==
  \/ BollingerReadArgs
  \/ BollingerTooFew
  \/ BollingerCompute
  \/ BollingerUpper
  \/ BollingerLower
  \/ BollingerNone
  \/ BollingerOutput
  \/ NextCandle

SpecBollinger == InitBollinger /\ [][NextBollinger]_vars

\* ---- RSI alert strategy --------------------------------------------------
\* first loop of calculateRsi as a whole: changes[i - 1] = prices[i] - prices[i - 1]
RsiChanges(prices) ==
  [k \in 1..(IF Len(prices) > 0 THEN Len(prices) - 1 ELSE 0) |->
     Sub(prices[k + 1], prices[k])]

\* second loop of calculateRsi as a whole: the values pushed for i = j, j + 1, ...
RECURSIVE RsiFrom(_, _, _)
RsiFrom(ch, j, p) ==
  IF j <= Len(ch) THEN <<RsiValue(ch, j, p)>> \o RsiFrom(ch, j + 1, p)
  ELSE <<>>

calculateRsi(prices, p) == RsiFrom(RsiChanges(prices), p, p)

RsiPeriodTexts == {Absent, "0", "1", "2"}

OverboughtTexts == {Absent, "abc", "50"}

OversoldTexts == {Absent, "0", "50"}

\* rsiPeriod = ... || 14, overbought = ... || 70, oversold = ... || 30
RsiAlertReadArgs ==
  /\ fn = "rsiAlert" /\ pc = "start"
  /\ loc' = [rsiPeriod |-> OrElse(getCallArgument(args, "rsiPeriod", "parseInt"), Int2Num(14)),
             overbought |-> OrElse(getCallArgument(args, "overbought", "parseFloat"), Int2Num(70)),
             oversold |-> OrElse(getCallArgument(args, "oversold", "parseFloat"), Int2Num(30)),
             currentRsi |-> Undefined,
             signal |-> "null", emailSent |-> FALSE]
  /\ pc' = "compute"
  /\ UNCHANGED <<fn, data, args, emails, output, past>>
  /\ UNCHANGED libRest

\* rsi = calculateRsi(closePrices, rsiPeriod); currentRsi = rsi[rsi.length - 1]
RsiAlertCompute ==
  /\ fn = "rsiAlert" /\ pc = "compute"
  /\ LET rsi == calculateRsi(data, IntOf(loc.rsiPeriod))
     IN  loc' = [loc EXCEPT !.currentRsi = At(rsi, Len(rsi) - 1)]
  /\ pc' = "decide"
  /\ UNCHANGED <<fn, data, args, emails, output, past>>
  /\ UNCHANGED libRest

\* currentRsi >= overbought
OverboughtCond(rsi, overbought) == Ge(rsi, overbought)

\* currentRsi <= oversold
OversoldCond(rsi, oversold) == Le(rsi, oversold)

RsiAlertOverbought_FlagNotSet ==
  /\ fn = "rsiAlert" /\ pc = "decide"
  /\ OverboughtCond(loc.currentRsi, loc.overbought)
  /\ emails' = Append(emails, [message |-> "RSI is overbought",
                               rsi |-> loc.currentRsi,
                               threshold |-> loc.overbought])
  /\ loc' = [loc EXCEPT !.signal = "overbought"]
  /\ pc' = "output"
  /\ UNCHANGED <<fn, data, args, output, past>>
  /\ UNCHANGED libRest

\* if (currentRsi >= overbought) { signal = 'overbought'; scheduleEmail(...); emailSent = true; }
RsiAlertOverbought ==
  /\ fn = "rsiAlert" /\ pc = "decide"
  /\ OverboughtCond(loc.currentRsi, loc.overbought)
  /\ emails' = Append(emails, [message |-> "RSI is overbought",
                               rsi |-> loc.currentRsi,
                               threshold |-> loc.overbought])
  /\ loc' = [loc EXCEPT !.signal = "overbought", !.emailSent = TRUE]
  /\ pc' = "output"
  /\ UNCHANGED <<fn, data, args, output, past>>
  /\ UNCHANGED libRest

RsiAlertOversold ==
  /\ fn = "rsiAlert" /\ pc = "decide"
  /\ ~OverboughtCond(loc.currentRsi, loc.overbought)
  /\ OversoldCond(loc.currentRsi, loc.oversold)
  /\ emails' = Append(emails, [message |-> "RSI is oversold",
                               rsi |-> loc.currentRsi,
                               threshold |-> loc.oversold])
  /\ loc' = [loc EXCEPT !.signal = "oversold", !.emailSent = TRUE]
  /\ pc' = "output"
  /\ UNCHANGED <<fn, data, args, output, past>>
  /\ UNCHANGED libRest

RsiAlertNone ==
  /\ fn = "rsiAlert" /\ pc = "decide"
  /\ ~OverboughtCond(loc.currentRsi, loc.overbought)
  /\ ~OversoldCond(loc.currentRsi, loc.oversold)
  /\ pc' = "output"
  /\ UNCHANGED <<fn, data, args, loc, emails, output, past>>
  /\ UNCHANGED libRest

\* output({ status: 'ok', rsi: currentRsi, signal, emailSent, overbought, oversold })
RsiAlertOutput ==
  /\ fn = "rsiAlert" /\ pc = "output"
  /\ output' = Append(output,
        [status |-> "ok", rsi |-> loc.currentRsi, signal |-> loc.signal,
         emailSent |-> loc.emailSent,
         overbought |-> loc.overbought, oversold |-> loc.oversold])
  /\ pc' = "done"
  /\ UNCHANGED <<fn, data, args, loc, emails, past>>
  /\ UNCHANGED libRest

InitRsiAlert ==
  /\ fn = "rsiAlert"
  /\ pc = "start"
  /\ data = <<>>
  /\ args \in [rsiPeriod : RsiPeriodTexts, overbought : OverboughtTexts,
               oversold : OversoldTexts]
  /\ loc = <<>>
  /\ emails = <<>>
  /\ output = <<>>
  /\ past = <<>>
  /\ LibIdle

NextRsiAlert ==
  \/ RsiAlertReadArgs
  \/ RsiAlertCompute
  \/ RsiAlertOverbought
  \/ RsiAlertOversold
  \/ RsiAlertNone
  \/ RsiAlertOutput
  \/ NextCandle

SpecRsiAlert == InitRsiAlert /\ [][NextRsiAlert]_vars

\* ---- multiple timeframe strategy -----------------------------------------
\* tickers = ['BTCUSDT_1H', 'BTCUSDT_4H', 'BTCUSDT_1D']
Tickers == 1..3

\* the closes of one timeframe
FrameCloses ==
  UNION {[1..n -> {Int2Num(0), Int2Num(1)}] : n \in 0..MaxFrameLen}

\* what args.getCandles(ticker) does: it throws, or returns candles
Frames ==
  {[throws |-> TRUE, closes |-> <<>>]}
    \cup {[throws |-> FALSE, closes |-> c] : c \in FrameCloses}

MultiPeriodTexts == {Absent, "1", "2"}

NoAnalysis == [kind |-> "absent", price |-> Undefined, sma |-> Undefined, trend |-> ""]

\* period = ... || 20; analysis = {}; allBullish = true; allBearish = true
MultiReadArgs ==
  /\ fn = "multi" /\ pc = "start"
  /\ loc' = [period |-> OrElse(getCallArgument(args, "period", "parseInt"), Int2Num(20)),
             ticker |-> 1,
             analysis |-> [t \in Tickers |-> NoAnalysis],
             allBullish |-> TRUE, allBearish |-> TRUE,
             emailSent |-> FALSE]
  /\ pc' = "loop"
  /\ UNCHANGED <<fn, data, args, emails, output, past>>
  /\ UNCHANGED libRest

\* args.getCandles(ticker) throws: analysis[ticker] = { error: String(error) }
MultiFrameThrows ==
  /\ fn = "multi" /\ pc = "loop"
  /\ loc.ticker \in Tickers
  /\ data[loc.ticker].throws
  /\ loc' = [loc EXCEPT !.analysis[loc.ticker] = [NoAnalysis EXCEPT !.kind = "error"],
                        !.ticker = loc.ticker + 1]
  /\ UNCHANGED <<fn, pc, data, args, emails, output, past>>
  /\ UNCHANGED libRest

\* closePrices.length < period + 1
SkipCond(n, p) == n < p + 1

\* if (closePrices.length < period + 1) continue;
MultiFrameSkip ==
  /\ fn = "multi" /\ pc = "loop"
  /\ loc.ticker \in Tickers
  /\ ~data[loc.ticker].throws
  /\ SkipCond(Len(data[loc.ticker].closes), IntOf(loc.period))
  /\ loc' = [loc EXCEPT !.ticker = loc.ticker + 1]
  /\ UNCHANGED <<fn, pc, data, args, emails, output, past>>
  /\ UNCHANGED libRest

\* trend = currentPrice > sma ? 'bullish' : 'bearish'
Trend(price, sma) == IF Gt(price, sma) THEN "bullish" ELSE "bearish"

\* sma, currentPrice, trend, analysis[ticker], allBullish, allBearish
MultiFrameAnalyse ==
  /\ fn = "multi" /\ pc = "loop"
  /\ loc.ticker \in Tickers
  /\ ~data[loc.ticker].throws
  /\ ~SkipCond(Len(data[loc.ticker].closes), IntOf(loc.period))
  /\ LET closePrices == data[loc.ticker].closes
         sma == calculateSmaOfLast(closePrices, IntOf(loc.period))
         currentPrice == At(closePrices, Len(closePrices) - 1)
         trend == Trend(currentPrice, sma)
     IN  loc' = [loc EXCEPT
                   !.analysis[loc.ticker] = [kind |-> "ok", price |-> currentPrice,
                                             sma |-> sma, trend |-> trend],
                   !.allBullish = IF trend # "bullish" THEN FALSE ELSE loc.allBullish,
                   !.allBearish = IF trend # "bearish" THEN FALSE ELSE loc.allBearish,
                   !.ticker = loc.ticker + 1]
  /\ UNCHANGED <<fn, pc, data, args, emails, output, past>>
  /\ UNCHANGED libRest

\* if (allBullish) { scheduleEmail(...); emailSent = true; }
MultiBullish ==
  /\ fn = "multi" /\ pc = "loop"
  /\ loc.ticker \notin Tickers
  /\ loc.allBullish
  /\ emails' = Append(emails, [message |-> "Strong bullish signal", period |-> loc.period])
  /\ loc' = [loc EXCEPT !.emailSent = TRUE]
  /\ pc' = "output"
  /\ UNCHANGED <<fn, data, args, output, past>>
  /\ UNCHANGED libRest

\* else if (allBearish) { scheduleEmail(...); emailSent = true; }
MultiBearish ==
  /\ fn = "multi" /\ pc = "loop"
  /\ loc.ticker \notin Tickers
  /\ ~loc.allBullish
  /\ loc.allBearish
  /\ emails' = Append(emails, [message |-> "Strong bearish signal", period |-> loc.period])
  /\ loc' = [loc EXCEPT !.emailSent = TRUE]
  /\ pc' = "output"
  /\ UNCHANGED <<fn, data, args, output, past>>
  /\ UNCHANGED libRest

MultiMixed ==
  /\ fn = "multi" /\ pc = "loop"
  /\ loc.ticker \notin Tickers
  /\ ~loc.allBullish
  /\ ~loc.allBearish
  /\ pc' = "output"
  /\ UNCHANGED <<fn, data, args, loc, emails, output, past>>
  /\ UNCHANGED libRest

\* output({ status: 'ok', analysis, signal: allBullish ? 'bullish' : (allBearish ? 'bearish' : 'mixed'), emailSent })
MultiOutput ==
  /\ fn = "multi" /\ pc = "output"
  /\ output' = Append(output,
        [status |-> "ok", analysis |-> loc.analysis,
         signal |-> IF loc.allBullish THEN "bullish"
                    ELSE IF loc.allBearish THEN "bearish" ELSE "mixed",
         emailSent |-> loc.emailSent])
  /\ pc' = "done"
  /\ UNCHANGED <<fn, data, args, loc, emails, past>>
  /\ UNCHANGED libRest

InitMulti ==
  /\ fn = "multi"
  /\ pc = "start"
  /\ data \in [Tickers -> Frames]
  /\ args \in [period : MultiPeriodTexts]
  /\ loc = <<>>
  /\ emails = <<>>
  /\ output = <<>>
  /\ past = <<>>
  /\ LibIdle

NextMulti ==
  \/ MultiReadArgs
  \/ MultiFrameThrows
  \/ MultiFrameSkip
  \/ MultiFrameAnalyse
  \/ MultiBullish
  \/ MultiBearish
  \/ MultiMixed
  \/ MultiOutput

SpecMulti == InitMulti /\ [][NextMulti]_vars

\* ---- all the strategies -------------------------------------------------
\* one of the example strategies, invoked by the host
InitStrategies ==
  \/ InitSmaAlert
  \/ InitRsiAlert
  \/ InitThreshold
  \/ InitVolume
  \/ InitBollinger
  \/ InitMulti

NextStrategies ==
  \/ NextSmaAlert
  \/ NextRsiAlert
  \/ NextThreshold
  \/ NextVolume
  \/ NextBollinger
  \/ NextMulti

SpecStrategies == InitStrategies /\ [][NextStrategies]_vars

\* ---- detectCrossover on a growing pair of series -------------------------
\* the values a step may append to a line
StepValues == {Int2Num(0), Int2Num(1), Int2Num(2)}

\* both series grow by one time-aligned value
CrossAppend ==
  /\ fn = "crossSeries" /\ pc = "done"
  /\ Len(line1) < MaxGrowLen
  /\ \E a \in StepValues, b \in StepValues :
        /\ line1' = Append(line1, a)
        /\ line2' = Append(line2, b)
  /\ pc' = "call"
  /\ UNCHANGED <<fn, data, period, i, changes, out, signal>>
  /\ UNCHANGED runVars

\* detectCrossover(line1, line2) on the grown series; out keeps the signals
CrossDetect ==
  /\ fn = "crossSeries" /\ pc = "call"
  /\ signal' = detectCrossover(line1, line2)
  /\ out' = Append(out, detectCrossover(line1, line2))
  /\ pc' = "done"
  /\ UNCHANGED <<fn, data, period, i, changes, line1, line2>>
  /\ UNCHANGED runVars

InitCrossSeries ==
  /\ fn = "crossSeries"
  /\ pc = "done"
  /\ data = <<>>
  /\ period = 1
  /\ i = 0
  /\ changes = <<>>
  /\ out = <<>>
  /\ line1 = <<>>
  /\ line2 = <<>>
  /\ signal = "pending"
  /\ NoRun

NextCrossSeries ==
  \/ CrossAppend
  \/ CrossDetect

SpecCrossSeries == InitCrossSeries /\ [][NextCrossSeries]_vars

\* ---- properties ----------------------------------------------------------
SmaDone == fn = "calculateSma" /\ pc = "done"

EmaDone == fn = "calculateEma" /\ pc = "done"

RsiDone == fn = "calculateRsi" /\ pc = "done"

MaxInt(a, b) == IF a > b THEN a ELSE b

\* sum of d[lo..hi] (1-based, inclusive) as an integer; prices are integers here
RECURSIVE WindowTotal(_, _, _)
WindowTotal(d, lo, hi) ==
  IF lo > hi THEN 0 ELSE d[lo][1] + WindowTotal(d, lo + 1, hi)

\* C1: for period >= 1 the array returned by calculateSma has exactly
\* max(0, n - period + 1) elements, n the length of the input.
C1_SmaLength ==
  (SmaDone /\ period >= 1) =>
     Len(out) = MaxInt(0, Len(data) - period + 1)

C1_Witness ==
  SmaDone /\ period = 2 /\ Len(data) = 4 /\ Len(out) = 3

\* C2: for period >= 1, element j of the result of calculateSma is the sum of
\* data[j .. j+period) divided by period, for every j in [0, n - period]; the
\* last element is the average of the period most recent values.
C2_SmaElements ==
  (SmaDone /\ period >= 1) =>
     /\ \A j \in 0..(Len(data) - period) :
          /\ j < Len(out)
          /\ out[j + 1] = Norm(WindowTotal(data, j + 1, j + period), period)
     /\ Len(data) >= period =>
          out[Len(out)] =
            Norm(WindowTotal(data, Len(data) - period + 1, Len(data)), period)

C2_Witness ==
  /\ SmaDone /\ period = 2
  /\ data = <<Int2Num(1), Int2Num(2), Int2Num(0)>>
  /\ out = <<<<3, 2>>, <<1, 1>>>>

\* C3: when period < 1 or the input is shorter than period, calculateSma
\* produces no output values.
C3_SmaInsufficientData ==
  (SmaDone /\ (period < 1 \/ Len(data) < period)) => out = <<>>

\* C4: the array returned by calculateEma has the length of its input, for
\* every period, also when the input is shorter than period or empty.
C4_EmaLength ==
  EmaDone => Len(out) = Len(data)

\* C5: for a non-empty input, calculateEma returns ema with ema[0] = data[0]
\* and ema[j] = data[j]*k + ema[j-1]*(1-k) for j in [1, n), k = 2/(period+1).
\* Element j is final as soon as the loop has read data[0..j]: the elements
\* written so far satisfy the recurrence in every state of the loop.
\* (An element that is NaN on both sides counts as equal.)
C5_EmaRecurrence ==
  (fn = "calculateEma" /\ pc \in {"loop", "done"} /\ data # <<>>) =>
     LET k == Norm(2, period + 1) IN
     /\ Len(out) = i
     /\ pc = "done" => Len(out) >= Len(data)
     /\ out[1] = data[1]
     /\ \A j \in 2..Len(out) :
          out[j] = Add(Mul(data[j], k), Mul(out[j - 1], Sub(Int2Num(1), k)))

C5_Witness ==
  /\ EmaDone /\ period = 3
  /\ data = <<Int2Num(2), Int2Num(0), Int2Num(1)>>
  /\ out = <<<<2, 1>>, <<1, 1>>, <<1, 1>>>>

\* C6: for period >= 1 every value produced by calculateRsi lies in [0, 100].
C6_RsiBounded ==
  (fn = "calculateRsi" /\ period >= 1) =>
     \A j \in 1..Len(out) :
        /\ Ge(out[j], Int2Num(0))
        /\ Le(out[j], Int2Num(100))

C6_Witness ==
  /\ RsiDone /\ period = 2
  /\ data = <<Int2Num(2), Int2Num(0), Int2Num(1)>>
  /\ out = <<<<100, 3>>>>

\* C7: an RSI value whose window of `period` changes contains no loss is
\* exactly 100.
C7_RsiNoLossIs100 ==
  (RsiDone /\ period >= 1) =>
     \A j \in 1..Len(out) :
        (\A m \in j..(j + period - 1) : changes[m][1] >= 0) =>
           out[j] = Int2Num(100)

\* C8: calculateRsi returns an empty array whenever the input has fewer than
\* period + 1 prices, and at least one value otherwise.
C8_RsiEmptyIffShort ==
  RsiDone =>
     /\ Len(data) < period + 1 => out = <<>>
     /\ Len(data) >= period + 1 => Len(out) >= 1

\* C9: for two series of at least 2 values each, detectCrossover returns
\* bullish iff pf <= ps and cf > cs, bearish iff pf >= ps and cf < cs, and no
\* signal in every other case ((pf, cf), (ps, cs) the last two values of the
\* fast and of the slow series).
C9_CrossoverIff ==
  (pc = "done" /\ fn = "detectCrossover" /\ Len(line1) >= 2 /\ Len(line2) >= 2) =>
     LET pf == line1[Len(line1) - 1]
         cf == line1[Len(line1)]
         ps == line2[Len(line2) - 1]
         cs == line2[Len(line2)]
         up == pf[1] * ps[2] <= ps[1] * pf[2] /\ cf[1] * cs[2] > cs[1] * cf[2]
         down == pf[1] * ps[2] >= ps[1] * pf[2] /\ cf[1] * cs[2] < cs[1] * cf[2]
     IN  /\ signal = "bullish" <=> up
         /\ signal = "bearish" <=> down
         /\ signal = "null" <=> (~up /\ ~down)

C9_Witness ==
  /\ pc = "done" /\ fn = "detectCrossover"
  /\ line1 = <<Int2Num(1), <<1, 2>>, <<3, 2>>>>
  /\ line2 = <<<<1, 2>>, Int2Num(1)>>
  /\ signal = "bullish"

\* C10: the bullish and the bearish condition never both hold on the same pair
\* of consecutive points, and detectCrossover returns no signal whenever either
\* series has fewer than 2 values.
C10_CrossoverExclusive ==
  (pc = "done" /\ fn = "detectCrossover") =>
     /\ ~(BullishCond(line1, line2) /\ BearishCond(line1, line2))
     /\ (Len(line1) < 2 \/ Len(line2) < 2) => signal = "null"

C10_Witness ==
  /\ pc = "done" /\ fn = "detectCrossover"
  /\ Len(line1) = 1
  /\ line2 = <<Int2Num(1), Int2Num(0)>>
  /\ signal = "null"

\* the SMA alert strategy runs Scenario A: fast period 3, slow period 5
ScenarioARun ==
  /\ fn = "smaAlert"
  /\ args.fastPeriod = "3" /\ args.slowPeriod = "5"
  /\ IsPrefix(data, ScenarioACloses)

\* the records output on the prefixes of the series, shortest first
Results == past \o output

\* C11 (as claimed): on the successive prefixes of closes [1..10] with fast
\* period 3 and slow period 5 the detector returns bullish on exactly one
\* prefix, the one where the fast SMA crosses above the slow SMA, and no signal
\* on every other prefix.
C11_ScenarioA_OneBullish ==
  (ScenarioARun /\ pc = "done" /\ data = ScenarioACloses) =>
     \E k \in 1..Len(Results) :
        /\ Results[k].crossover = "bullish"
        /\ \A m \in 1..Len(Results) : m # k => Results[m].crossover = "none"

\* C11 (amended): on the successive prefixes of closes [1..10] with fast
\* period 3 and slow period 5 the detector returns no signal on every prefix:
\* the fast SMA is above the slow SMA on every prefix where both exist (it is
\* n - 1 against n - 2), so it never crosses.
C11_ScenarioA_NoCrossover ==
  (ScenarioARun /\ pc = "done") =>
     /\ \A m \in 1..Len(Results) :
          Results[m].crossover = "none" /\ ~Results[m].emailSent
     /\ Len(data) >= 5 =>
          /\ output[1].currentFastSma = Int2Num(Len(data) - 1)
          /\ output[1].currentSlowSma = Int2Num(Len(data) - 2)

C11_Witness ==
  /\ ScenarioARun /\ pc = "done" /\ data = ScenarioACloses
  /\ Len(past) = 10
  /\ output = <<[status |-> "ok", crossover |-> "none", emailSent |-> FALSE,
                 currentFastSma |-> Int2Num(9), currentSlowSma |-> Int2Num(8)]>>

\* x <= y, x < y for two finite numbers, by cross-multiplication
LeqRat(x, y) == x[1] * y[2] <= y[1] * x[2]

LessRat(x, y) == x[1] * y[2] < y[1] * x[2]

\* the threshold argument parses to a number
NumericThreshold ==
  args.threshold # Absent /\ ParseFloat(args.threshold) # NaN

\* C12: with at least 2 candles and a numeric threshold the strategy triggers
\* for direction 'above' iff previousPrice <= threshold < currentPrice, for
\* direction 'below' iff previousPrice >= threshold > currentPrice; over the
\* invocations on the growing series, once it has triggered it does not
\* trigger again while the price stays beyond the threshold.
C12_ThresholdCrossing ==
  (fn = "threshold" /\ pc = "done" /\ NumericThreshold) =>
     LET t == ParseFloat(args.threshold)
         above == args.direction \in {Absent, "above"}
         below == args.direction = "below"
     IN
     \A n \in 2..Len(data) :
        LET r == Results[n + 1]
            cur == data[n]
            prev == data[n - 1]
        IN  /\ r.status = "ok"
            /\ above => (r.triggered <=> (LeqRat(prev, t) /\ LessRat(t, cur)))
            /\ below => (r.triggered <=> (LeqRat(t, prev) /\ LessRat(cur, t)))
            /\ \A k \in 2..(n - 1) :
                 (/\ Results[k + 1].triggered
                  /\ above
                  /\ \A j \in k..n : LessRat(t, data[j])) => ~r.triggered
            /\ \A k \in 2..(n - 1) :
                 (/\ Results[k + 1].triggered
                  /\ below
                  /\ \A j \in k..n : LessRat(data[j], t)) => ~r.triggered

C12_Witness ==
  /\ fn = "threshold" /\ pc = "done"
  /\ args = [threshold |-> "0.5", direction |-> "above"]
  /\ data = <<Int2Num(0), Int2Num(1), Int2Num(2)>>
  /\ Results[3].triggered
  /\ ~Results[4].triggered

\* C13: when the threshold argument is missing or does not parse to a number,
\* the price-threshold strategy outputs status error (never status ok).
C13_MissingThresholdIsError ==
  (fn = "threshold" /\ pc = "done" /\ ~NumericThreshold) =>
     /\ Len(output) = 1
     /\ output[1].status = "error"

\* the named period argument was supplied and parses to an integer below 2
SuppliedPeriodBelow2(name) ==
  /\ args[name] # Absent
  /\ ParseInt(args[name]) # NaN
  /\ IntOf(ParseInt(args[name])) < 2

\* C14: a supplied period that parses to an integer less than 2 produces a
\* result with status error (here for fastPeriod and slowPeriod of the SMA
\* alert strategy).
C14_LowPeriodIsError ==
  (/\ fn = "smaAlert" /\ pc = "done"
   /\ (SuppliedPeriodBelow2("fastPeriod") \/ SuppliedPeriodBelow2("slowPeriod"))) =>
     /\ Len(output) = 1
     /\ output[1].status = "error"

\* C19: when the series has fewer candles than an indicator window requires,
\* the result has status error; no result has status ok with an undefined or
\* NaN indicator value (here for the SMA alert strategy).
C19_InsufficientDataIsError ==
  (fn = "smaAlert" /\ pc = "done") =>
     /\ (Len(data) < IntOf(loc.fastPeriod) \/ Len(data) < IntOf(loc.slowPeriod)) =>
          output[1].status = "error"
     /\ output[1].status = "ok" =>
          /\ output[1].currentFastSma \notin {Undefined, NaN}
          /\ output[1].currentSlowSma \notin {Undefined, NaN}

\* the volume-spike strategy had enough candles for a window of at least one
EnoughVolumes ==
  /\ fn = "volume" /\ pc = "done"
  /\ IntOf(loc.volumePeriod) >= 1
  /\ Len(data) >= IntOf(loc.volumePeriod) + 1

\* total volume of the volumePeriod candles before the most recent one
HistoricalTotal ==
  WindowTotal(data, Len(data) - IntOf(loc.volumePeriod), Len(data) - 1)

\* C15: with at least volumePeriod + 1 candles (volumePeriod a count, >= 1)
\* the strategy averages exactly the volumePeriod candles before the most
\* recent one and reports a spike iff currentVolume / average >=
\* spikeMultiplier (a quotient by a zero average being Infinity, or NaN for
\* 0 / 0, as the division yields it).
C15_VolumeSpike ==
  EnoughVolumes =>
     LET vp == IntOf(loc.volumePeriod)
         avg == Norm(HistoricalTotal, vp)
         cur == data[Len(data)]
         mult == loc.spikeMultiplier
     IN  /\ Len(output) = 1
         /\ output[1].status = "ok"
         /\ output[1].avgVolume = avg
         /\ output[1].spikeDetected <=>
              (IF HistoricalTotal = 0 THEN cur[1] > 0
               ELSE LeqRat(Mul(mult, avg), cur))
         /\ output[1].emailSent <=> output[1].spikeDetected

\* Scenario D: current volume 300, 10-candle average 100, multiplier 2.0
C15_Witness ==
  /\ fn = "volume" /\ pc = "done"
  /\ data = ScenarioDVolumes
  /\ args = [volumePeriod |-> "10", spikeMultiplier |-> "2.0"]
  /\ output[1].avgVolume = Int2Num(100)
  /\ output[1].volumeRatio = Int2Num(3)
  /\ output[1].spikeDetected

\* C16: when the average of the historical volume window is zero the strategy
\* outputs status error and schedules no notification.
C16_ZeroAverageIsError ==
  (EnoughVolumes /\ HistoricalTotal = 0) =>
     /\ Len(output) = 1
     /\ output[1].status = "error"
     /\ emails = <<>>

\* the Bollinger run has ended with status 'ok'
BollingerOk ==
  /\ fn = "bollinger" /\ pc = "done"
  /\ Len(output) = 1
  /\ output[1].status = "ok"

\* sum of the squares of d[lo..hi] (1-based, inclusive), prices being integers
RECURSIVE WindowSquares(_, _, _)
WindowSquares(d, lo, hi) ==
  IF lo > hi THEN 0 ELSE d[lo][1] * d[lo][1] + WindowSquares(d, lo + 1, hi)

\* for the last p closes x: p * sum(x^2) - sum(x)^2, which is p^2 times their
\* population variance
ScaledVariance(p) ==
  p * WindowSquares(data, Len(data) - p + 1, Len(data))
    - WindowTotal(data, Len(data) - p + 1, Len(data))
      * WindowTotal(data, Len(data) - p + 1, Len(data))

\* p * (last close - mean of the last p closes)
ScaledDeviation(p) ==
  p * data[Len(data)][1] - WindowTotal(data, Len(data) - p + 1, Len(data))

\* the price is neither above nor below the band: it is equal to it
PriceOnBand(x, band) ==
  /\ ToNumber(x) # NaN /\ ~SurdIsNaN(band)
  /\ ~GtNumSurd(x, band) /\ ~LtNumSurd(x, band)

\* what the output and the e-mails say about the breakout, against the two
\* comparisons of the price with the bands
BreakoutMatches(above, below) ==
  /\ (output[1].breakout = "upper") <=> above
  /\ (output[1].breakout = "lower") <=> below
  /\ output[1].breakout \in {"upper", "lower", "null"}
  /\ output[1].emailSent <=> (output[1].breakout # "null")
  /\ Len(emails) = (IF output[1].breakout = "null" THEN 0 ELSE 1)

\* C17 (as claimed): whatever the multiplier, the strategy reports an upper
\* breakout iff currentPrice > upperBand, a lower breakout iff currentPrice <
\* lowerBand, and no breakout for a price equal to either band.
C17_BreakoutIff ==
  BollingerOk =>
     /\ BreakoutMatches(GtNumSurd(output[1].currentPrice, output[1].upperBand),
                        LtNumSurd(output[1].currentPrice, output[1].lowerBand))
     /\ (\/ PriceOnBand(output[1].currentPrice, output[1].upperBand)
         \/ PriceOnBand(output[1].currentPrice, output[1].lowerBand))
          => (output[1].breakout = "null" /\ emails = <<>>)

\* C17 (amended): for a positive stdDevMultiplier m the strategy reports an
\* upper breakout iff currentPrice > upperBand, a lower breakout iff
\* currentPrice < lowerBand, and no breakout for a price equal to either band;
\* for a period p >= 1 the bands are mean +/- m * sd of the last p closes, so
\* with y = p * (price - mean) and D = p^2 * variance the price is above the
\* upper band iff y > 0 and y^2 > m^2 * D, below the lower one iff y < 0 and
\* y^2 > m^2 * D.
C17_BreakoutIff_PositiveMultiplier ==
  (BollingerOk /\ loc.stdDevMultiplier[1] > 0) =>
     /\ BreakoutMatches(GtNumSurd(output[1].currentPrice, output[1].upperBand),
                        LtNumSurd(output[1].currentPrice, output[1].lowerBand))
     /\ (\/ PriceOnBand(output[1].currentPrice, output[1].upperBand)
         \/ PriceOnBand(output[1].currentPrice, output[1].lowerBand))
          => (output[1].breakout = "null" /\ emails = <<>>)
     /\ IntOf(loc.period) >= 1 =>
          LET y == ScaledDeviation(IntOf(loc.period))
              mn == loc.stdDevMultiplier[1]
              md == loc.stdDevMultiplier[2]
              outside == md * md * y * y > mn * mn * ScaledVariance(IntOf(loc.period))
          IN  BreakoutMatches(y > 0 /\ outside, y < 0 /\ outside)

\* C17 witness: closes ending 0, 2 with period 2 and multiplier 1 give mean 1,
\* standard deviation 1 and an upper band of 2, equal to the price, and the run
\* reports no breakout.
C17_Witness ==
  /\ BollingerOk
  /\ args = [period |-> "2", stdDevMultiplier |-> "1"]
  /\ Len(data) >= 2
  /\ data[Len(data) - 1] = Int2Num(0)
  /\ data[Len(data)] = Int2Num(2)
  /\ PriceOnBand(output[1].currentPrice, output[1].upperBand)
  /\ output[1].breakout = "null"

\* C18: when the number of closes is below the configured period (20 when the
\* argument is absent) the Bollinger strategy outputs the error "Not enough
\* data. Need at least <period> candles" with the period, computes no band and
\* sends no e-mail; with at least period closes it does not.
C18_BollingerNotEnoughData ==
  (fn = "bollinger" /\ pc = "done") =>
     /\ args.period = Absent => loc.period = Int2Num(20)
     /\ Len(output) = 1
     /\ IF Len(data) < IntOf(loc.period)
        THEN /\ output[1] = [status |-> "error",
                             message |-> "Not enough data. Need at least",
                             count |-> IntOf(loc.period)]
             /\ emails = <<>>
        ELSE /\ output[1].status = "ok"
             /\ "upperBand" \in DOMAIN output[1]

\* C18 witness: Scenario C, 5 candles and the default period of 20.
C18_Witness ==
  /\ fn = "bollinger" /\ pc = "done"
  /\ data = ScenarioCCloses
  /\ args.period = Absent
  /\ output[1].status = "error"
  /\ output[1].count = 20

\* the standard deviation has been computed in this run
StdDevComputed ==
  /\ fn = "bollinger"
  /\ \/ pc \in {"decide", "output"}
     \/ BollingerOk

\* C20: for a period p >= 1 calculateStdDev returns the population standard
\* deviation of the last p elements: the square root of (p * sum(x^2) -
\* sum(x)^2) / p^2 over those elements, a non-negative number.
C20_PopulationStdDev ==
  (StdDevComputed /\ IntOf(loc.period) >= 1) =>
     /\ ScaledVariance(IntOf(loc.period)) >= 0
     /\ loc.stdDev = <<Int2Num(0), Int2Num(1),
                       Norm(ScaledVariance(IntOf(loc.period)),
                            IntOf(loc.period) * IntOf(loc.period))>>

\* C20 witness: of 4 closes the last two, 0 and 2, are the window of period 2,
\* and their standard deviation is sqrt(1).
C20_Witness ==
  /\ BollingerOk
  /\ Len(data) = 4
  /\ IntOf(loc.period) = 2
  /\ data[3] = Int2Num(0) /\ data[4] = Int2Num(2)
  /\ data[1] # data[3]
  /\ loc.stdDev = MathSqrt(Int2Num(1))

\* an invocation has ended with status 'ok'
StrategyOk ==
  /\ fn \in {"smaAlert", "rsiAlert", "threshold", "volume", "bollinger", "multi"}
  /\ pc = "done"
  /\ Len(output) = 1
  /\ output[1].status = "ok"

\* the result of the invocation reports no signal
SignalIsNone ==
  CASE fn = "smaAlert" -> output[1].crossover = "none"
    [] fn = "rsiAlert" -> output[1].signal = "null"
    [] fn = "threshold" -> ~output[1].triggered
    [] fn = "volume" -> ~output[1].spikeDetected
    [] fn = "bollinger" -> output[1].breakout = "null"
    [] fn = "multi" -> output[1].signal = "mixed"
    [] OTHER -> TRUE

\* C21: in every strategy an invocation never has more than one notification
\* scheduled; at its end it has scheduled none when the signal is none, and
\* emailSent is true iff one was scheduled.
C21_AtMostOneNotification ==
  /\ Len(emails) <= 1
  /\ StrategyOk =>
       /\ SignalIsNone => emails = <<>>
       /\ output[1].emailSent <=> (Len(emails) = 1)

\* C21 witness: an RSI invocation that scheduled its one notification.
C21_Witness ==
  /\ StrategyOk
  /\ fn = "rsiAlert"
  /\ output[1].signal = "overbought"
  /\ output[1].emailSent
  /\ Len(emails) = 1

\* the argument is absent or its text does not parse
NoValue(name, parser) ==
  \/ args[name] = Absent
  \/ parser = "parseInt" /\ ParseInt(args[name]) = NaN
  \/ parser = "parseFloat" /\ ParseFloat(args[name]) = NaN

\* the strategy has read its call arguments in this invocation
ArgsRead ==
  /\ fn \in {"smaAlert", "rsiAlert", "threshold", "volume", "bollinger", "multi"}
  /\ pc # "start"
  /\ ~(fn = "threshold" /\ pc = "done" /\ output[1].status = "error")

\* the strategy works with the default for an argument without a value
DefaultUsed(name, parser, default) ==
  NoValue(name, parser) => loc[name] = Int2Num(default)

\* C23: when an optional argument is absent or its text does not parse, the
\* strategy works with the documented default (fastPeriod 10, slowPeriod 20,
\* rsiPeriod 14, overbought 70, oversold 30, direction 'above', volumePeriod
\* 20, spikeMultiplier 2, period 20, stdDevMultiplier 2); a status error is
\* emitted only when there are fewer candles than the values in use require,
\* never by the SMA alert, the RSI alert or the multiple timeframe strategy.
C23_DefaultsNotErrors ==
  /\ ArgsRead =>
       CASE fn = "smaAlert" ->
              /\ DefaultUsed("fastPeriod", "parseInt", 10)
              /\ DefaultUsed("slowPeriod", "parseInt", 20)
         [] fn = "rsiAlert" ->
              /\ DefaultUsed("rsiPeriod", "parseInt", 14)
              /\ DefaultUsed("overbought", "parseFloat", 70)
              /\ DefaultUsed("oversold", "parseFloat", 30)
         [] fn = "threshold" ->
              args.direction = Absent => loc.direction = "above"
         [] fn = "volume" ->
              /\ DefaultUsed("volumePeriod", "parseInt", 20)
              /\ DefaultUsed("spikeMultiplier", "parseFloat", 2)
         [] fn = "bollinger" ->
              /\ DefaultUsed("period", "parseInt", 20)
              /\ DefaultUsed("stdDevMultiplier", "parseFloat", 2)
         [] fn = "multi" ->
              DefaultUsed("period", "parseInt", 20)
  /\ (pc = "done" /\ output[1].status = "error") =>
       CASE fn = "threshold" -> Len(data) < 2
         [] fn = "volume" ->
              Len(data) < (IF NoValue("volumePeriod", "parseInt") THEN 20
                           ELSE IntOf(loc.volumePeriod)) + 1
         [] fn = "bollinger" ->
              Len(data) < (IF NoValue("period", "parseInt") THEN 20
                           ELSE IntOf(loc.period))
         [] OTHER -> FALSE

\* C23 witness: the SMA alert called with an unparseable fastPeriod and no
\* slowPeriod ends with status ok, having worked with 10 and 20.
C23_Witness ==
  /\ StrategyOk
  /\ fn = "smaAlert"
  /\ args = [fastPeriod |-> "abc", slowPeriod |-> Absent]
  /\ loc.fastPeriod = Int2Num(10)
  /\ loc.slowPeriod = Int2Num(20)

\* a strategy is being invoked
InStrategy ==
  fn \in {"smaAlert", "rsiAlert", "threshold", "volume", "bollinger", "multi"}

C25_RsiFiresOnTransitionOnly ==
  fn = "rsiAlert" =>
     \A k \in 2..Len(Results) :
        /\ Results[k].signal = "overbought" => Results[k - 1].signal # "overbought"
        /\ Results[k].signal = "oversold" => Results[k - 1].signal # "oversold"

\* the text of the argument parses to a finite number
ParsesFinite(name, parser) ==
  /\ args[name] # Absent
  /\ LET v == IF parser = "parseInt" THEN ParseInt(args[name])
              ELSE ParseFloat(args[name])
     IN  v[2] > 0

\* the strategy works with the parsed value of the argument
ParsedUsed(name, parser) ==
  ParsesFinite(name, parser) =>
     loc[name] = (IF parser = "parseInt" THEN ParseInt(args[name])
                  ELSE ParseFloat(args[name]))

\* C28: the RSI alert works with the parsed value of every numeric argument
\* whose text parses to a finite number, 0 included (oversold = "0" is used as
\* 0, not replaced by 30).
C28_ParsedZeroIsUsed ==
  (fn = "rsiAlert" /\ pc # "start") =>
     /\ ParsedUsed("rsiPeriod", "parseInt")
     /\ ParsedUsed("overbought", "parseFloat")
     /\ ParsedUsed("oversold", "parseFloat")

\* the last step before k with the given signal, 0 when there is none
RECURSIVE LastSignalBefore(_, _)
LastSignalBefore(sig, k) ==
  IF k <= 1 THEN 0
  ELSE IF out[k - 1] = sig THEN k - 1 ELSE LastSignalBefore(sig, k - 1)

\* C26 (as claimed): over the successive calls bullish and bearish signals
\* alternate: a bullish signal at step k comes only if the fast value was
\* strictly below the slow value at some step since the previous bullish
\* signal (or since the start), symmetrically for bearish, and two signals of
\* one kind never occur without a signal of the other kind between them.
C26_SignalsAlternate ==
  fn = "crossSeries" =>
     \A k \in 1..Len(out) :
        /\ out[k] = "bullish" =>
             /\ \E m \in (LastSignalBefore("bullish", k) + 1)..(k - 1) :
                   LessRat(line1[m], line2[m])
             /\ LastSignalBefore("bullish", k) > 0 =>
                   \E m \in (LastSignalBefore("bullish", k) + 1)..(k - 1) :
                      out[m] = "bearish"
        /\ out[k] = "bearish" =>
             /\ \E m \in (LastSignalBefore("bearish", k) + 1)..(k - 1) :
                   LessRat(line2[m], line1[m])
             /\ LastSignalBefore("bearish", k) > 0 =>
                   \E m \in (LastSignalBefore("bearish", k) + 1)..(k - 1) :
                      out[m] = "bullish"

\* the two series never hold equal values at the same step
NeverTied == \A m \in 1..Len(line1) : line1[m] # line2[m]

\* C26 (amended): a bullish signal at step k comes only if the fast value was
\* at or below the slow value at some step since the previous bullish signal
\* (or since the start), symmetrically for bearish; when the series are never
\* tied, two signals of one kind never occur without a signal of the other
\* kind between them.
C26_SignalsAfterTieOrCross ==
  fn = "crossSeries" =>
     \A k \in 1..Len(out) :
        /\ out[k] = "bullish" =>
             /\ \E m \in (LastSignalBefore("bullish", k) + 1)..(k - 1) :
                   LeqRat(line1[m], line2[m])
             /\ (NeverTied /\ LastSignalBefore("bullish", k) > 0) =>
                   \E m \in (LastSignalBefore("bullish", k) + 1)..(k - 1) :
                      out[m] = "bearish"
        /\ out[k] = "bearish" =>
             /\ \E m \in (LastSignalBefore("bearish", k) + 1)..(k - 1) :
                   LeqRat(line2[m], line1[m])
             /\ (NeverTied /\ LastSignalBefore("bearish", k) > 0) =>
                   \E m \in (LastSignalBefore("bearish", k) + 1)..(k - 1) :
                      out[m] = "bullish"

\* C26 witness: fast below, above, tied, above again: two bullish signals with
\* a tie and no bearish signal between them.
C26_Witness ==
  /\ fn = "crossSeries" /\ pc = "done"
  /\ out = <<"null", "bullish", "null", "bullish">>
  /\ line1[3] = line2[3]

\* the timeframe was analysed: its candles loaded and were not too few
Analysed(t) == output[1].analysis[t].kind = "ok"

\* C27: the multiple timeframe strategy reports 'bullish' (resp. 'bearish')
\* and schedules the notification only if every one of the three timeframes
\* was analysed with that trend; when no timeframe was analysed it schedules
\* nothing and the signal is neither 'bullish' nor 'bearish'.
C27_SignalNeedsAllTimeframes ==
  (fn = "multi" /\ pc = "done") =>
     /\ (output[1].signal \in {"bullish", "bearish"} \/ emails # <<>>) =>
          \A t \in Tickers :
             Analysed(t) /\ output[1].analysis[t].trend = output[1].signal
     /\ (\A t \in Tickers : ~Analysed(t)) =>
          (emails = <<>> /\ output[1].signal \notin {"bullish", "bearish"})

====
